---- MODULE Spec2Model ----
(***************************************************************************)
(* Model of tonic-interceptor (src/src/lib.rs): InterceptorService::call   *)
(* and the future it returns, InterceptorFut, with its poll.               *)
(*                                                                         *)
(* One service (an interceptor and an inner handler) serves NumCalls       *)
(* calls.  Each call owns one InterceptorFut, polled by an external        *)
(* scheduler; the inner handler's future resolves on its own.              *)
(***************************************************************************)
EXTENDS Integers, Sequences, FiniteSets, TLC

\* ---- bounds -------------------------------------------------------------
NumCalls == 2
MaxPolls == 1

Calls == 1 .. NumCalls

\* ---- small values -------------------------------------------------------
None == [tag |-> "None"]
Some(v) == [tag |-> "Some", val |-> v]
Ok(v) == [tag |-> "Ok", val |-> v]
Err(e) == [tag |-> "Err", val |-> e]
Pending == [tag |-> "Pending"]
Ready(v) == [tag |-> "Ready", val |-> v]

\* ---- http::HeaderMap / http::Extensions as finite maps -----------------
EmptyMap == [k \in {} |-> ""]
Insert(h, k, v) == [x \in (DOMAIN h) \cup {k} |-> IF x = k THEN v ELSE h[x]]
Remove(h, k) == [x \in (DOMAIN h) \ {k} |-> h[x]]
Extend(h, g) == [x \in (DOMAIN h) \cup (DOMAIN g) |-> IF x \in DOMAIN g THEN g[x] ELSE h[x]]

\* ---- tonic::metadata::MetadataMap --------------------------------------
from_headers(h) == [headers |-> h]
into_headers(md) == md.headers
GRPC_RESERVED_HEADERS == {"te", "user-agent", "content-type", "grpc-message", "grpc-message-type", "grpc-status"}
into_sanitized_headers(md) == [x \in (DOMAIN md.headers) \ GRPC_RESERVED_HEADERS |-> md.headers[x]]
md_insert(md, k, v) == [headers |-> Insert(md.headers, k, v)]
md_remove(md, k) == [headers |-> Remove(md.headers, k)]
\* MetadataValue::from_bytes stores the base64 form of the bytes
base64(b) == CASE b = "BIN" -> "QklO" [] b = "" -> "" [] OTHER -> "ZA"
md_insert_bin(md, k, bytes) == [headers |-> Insert(md.headers, k, base64(bytes))]

\* ---- tonic::Status ------------------------------------------------------
Status(code, message, details, metadata) == [code |-> code, message |-> message, details |-> details, metadata |-> metadata]
permission_denied(msg) == Status("PermissionDenied", msg, "", from_headers(EmptyMap))
unauthenticated(msg) == Status("Unauthenticated", msg, "", from_headers([k \in {"x-realm", "grpc-status"} |-> IF k = "x-realm" THEN "api" ELSE "0"]))
to_header_value(code) == CASE code = "PermissionDenied" -> "7" [] code = "Unauthenticated" -> "16" [] OTHER -> "2"
percent_encode(msg) == CASE msg = "no auth" -> "no%20auth" [] OTHER -> msg
\* HeaderValue::from_maybe_shared accepts visible ASCII only
HeaderValueOk(v) == v \in {"BAD", "no%20auth", "ZA", "QklO"}

\* Status::add_header: Result<(), Status> and the header map it leaves
add_header(status, h) ==
  LET h1 == Extend(h, into_sanitized_headers(status.metadata))
      h2 == Insert(h1, "grpc-status", to_header_value(status.code))
      m  == percent_encode(status.message)
      h3 == IF status.message # "" THEN Insert(h2, "grpc-message", m) ELSE h2
      d  == base64(status.details)
      h4 == IF status.details # "" THEN Insert(h3, "grpc-status-details-bin", d) ELSE h3
  IN  IF status.message # "" /\ ~HeaderValueOk(m) THEN [ok |-> FALSE, headers |-> h2]
      ELSE IF status.details # "" /\ ~HeaderValueOk(d) THEN [ok |-> FALSE, headers |-> h3]
      ELSE [ok |-> TRUE, headers |-> h4]

\* ---- http::Request / http::Response ------------------------------------
DefaultBody == ""
Request(headers, extensions, body) == [headers |-> headers, extensions |-> extensions, body |-> body]
Response(headers, extensions, body) == [status |-> 200, version |-> "HTTP/1.1", headers |-> headers, extensions |-> extensions, body |-> body]
ResponseNew(body) == Response(EmptyMap, EmptyMap, body)

\* ---- the interception policies (impls of trait Interceptor) ------------
\* "deny"   : OnRequest closure that rejects every call
\* "modify" : OnRequest closure that inserts two headers and one extension
\* "auth"   : InterceptorFn pair; rejects calls without authorization,
\*            after having touched the rejected headers
Policies == {"deny", "modify", "auth"}

HookOut(md, ext, ret) == [headers |-> md, extensions |-> ext, ret |-> ret]

on_request(I, headers, extensions) ==
  CASE I = "deny" -> HookOut(headers, extensions, Some(permission_denied("BAD")))
    [] I = "modify" ->
         HookOut(md_insert(md_insert_bin(headers, "x-msg-bin", "BIN"), "x-msg", "BAD"),
                 Insert(extensions, "Dummy", "EXT"), None)
    [] OTHER ->
         IF "authorization" \in DOMAIN headers.headers
         THEN HookOut(md_remove(headers, "authorization"),
                      Insert(extensions, "User", headers.headers["authorization"]), None)
         ELSE HookOut(md_insert(headers, "x-rejected", "1"),
                      Insert(extensions, "Rejected", "1"), Some(unauthenticated("no auth")))

\* the policies built with OnRequest, which keep the trait's default on_response
OnRequestPolicies == {"deny", "modify"}

\* on_response returns the metadata it leaves; extensions are read-only
on_response(I, headers, extensions) ==
  IF I = "auth"
  THEN md_insert(headers, "x-intercepted", IF "Trace" \in DOMAIN extensions THEN extensions["Trace"] ELSE "1")
  ELSE headers

\* ---- inputs -------------------------------------------------------------
Requests ==
  { Request(EmptyMap, EmptyMap, "b1"),
    Request([k \in {"authorization", "x-msg"} |-> IF k = "x-msg" THEN "old" ELSE "tok"],
            [k \in {"Conn"} |-> "c0"], "b2") }

HandlerResponses ==
  { ResponseNew(DefaultBody),
    Response([k \in {"x-h", "x-intercepted"} |-> "v"], [k \in {"Trace"} |-> "t1"], "r1") }
HandlerErrors == {"e1", "e2"}
HandlerOutcomes == {Ok(r) : r \in HandlerResponses} \cup {Err(e) : e \in HandlerErrors}
\* the outcomes enumerated for a handler that received req: each request
\* may succeed or fail, and every outcome above occurs for some request
HandlerOutcomesFor(req) ==
  IF req.body = "b1"
  THEN {Ok(ResponseNew(DefaultBody)), Err("e1")}
  ELSE HandlerOutcomes \ {Ok(ResponseNew(DefaultBody)), Err("e1")}

\* ---- the inner handler's future (S::Future), opaque ---------------------
\* a task::Context: the waker of the task that polls call c
Context(c) == [waker |-> [task |-> c]]
\* a future that is not ready keeps the waker of the context it was polled with
PendingFut == [state |-> "pending", out |-> None, waker |-> None]
Future_poll(f, ctx) ==
  IF f.state = "ready"
  THEN [out |-> Ready(f.out), fut |-> [state |-> "done", out |-> None, waker |-> None], ctx |-> ctx]
  ELSE [out |-> Pending, fut |-> [f EXCEPT !.waker = ctx.waker], ctx |-> ctx]

\* ---- trace events -------------------------------------------------------
Ev(name, arg) == [ev |-> name, arg |-> arg]

\* ---- InterceptorFut -----------------------------------------------------
InterceptorFut_status(I, status) == [interceptor |-> I, inner |-> Err(status)]
InterceptorFut_fut(I, f) == [interceptor |-> I, inner |-> Ok(f)]

\* ---- InterceptorService::call ------------------------------------------
\* self is the service; a result carries the future returned, the requests
\* handed to self.inner.call and the events in program order
HookEv(r) == Ev("on_request", [headers |-> r.headers, extensions |-> r.extensions, ret |-> r.ret])

\* the None arm: reassemble the request, call the inner handler
call_None(self, r, body) ==
  LET req2 == Request(into_headers(r.headers), r.extensions, body)
  IN  [fut   |-> InterceptorFut_fut(self.interceptor, PendingFut),
       inner |-> <<req2>>,
       trace |-> <<HookEv(r), Ev("inner_call", req2)>>]

\* the Some(status) arm: the request is discarded
call_Some(self, r, body) ==
  [fut   |-> InterceptorFut_status(self.interceptor, r.ret.val),
   inner |-> << >>,
   trace |-> <<HookEv(r)>>]

\* mutant: the rejected request still reaches the inner handler
call_InvokesInnerOnReject(self, req) ==
  LET r == on_request(self.interceptor, from_headers(req.headers), req.extensions)
  IN  IF r.ret.tag = "None" THEN call_None(self, r, req.body)
      ELSE [call_Some(self, r, req.body) EXCEPT !.inner = call_None(self, r, req.body).inner,
                                                !.trace = call_None(self, r, req.body).trace]

\* mutant: the inner handler gets the request as the caller sent it
call_ForwardsOriginal(self, req) ==
  LET r == on_request(self.interceptor, from_headers(req.headers), req.extensions)
  IN  IF r.ret.tag = "None"
      THEN [call_None(self, r, req.body) EXCEPT !.inner = <<req>>,
                                                !.trace = <<HookEv(r), Ev("inner_call", req)>>]
      ELSE call_Some(self, r, req.body)

\* mutant: the inner handler is called before the request hook runs
call_HookAfterInner(self, req) ==
  LET r == on_request(self.interceptor, from_headers(req.headers), req.extensions)
      n == call_None(self, r, req.body)
  IN  IF r.ret.tag = "None"
      THEN [n EXCEPT !.trace = <<n.trace[2], n.trace[1]>>]
      ELSE call_Some(self, r, req.body)

\* mutant: the service keeps the last forwarded request and forwards its
\* metadata again for the calls that follow
call_SharedState(self, req) ==
  LET r    == on_request(self.interceptor, from_headers(req.headers), req.extensions)
      n    == call_None(self, r, req.body)
      seen == {d \in DOMAIN self.inner : self.inner[d] # << >>}
      old  == self.inner[CHOOSE d \in seen : TRUE][1]
      req2 == Request(old.headers, old.extensions, req.body)
  IN  IF r.ret.tag = "Some" THEN call_Some(self, r, req.body)
      ELSE IF seen = {} THEN n
      ELSE [n EXCEPT !.inner = <<req2>>, !.trace = <<HookEv(r), Ev("inner_call", req2)>>]

\* mutant: the inner handler is not called until the future is polled
call_LazyInner(self, req) ==
  LET r == on_request(self.interceptor, from_headers(req.headers), req.extensions)
  IN  IF r.ret.tag = "None"
      THEN [call_None(self, r, req.body) EXCEPT !.inner = << >>, !.trace = <<HookEv(r)>>]
      ELSE call_Some(self, r, req.body)

InterceptorService_call(self, req) ==
  LET parts   == [headers |-> req.headers, extensions |-> req.extensions]
      body    == req.body
      headers == from_headers(parts.headers)
      r       == on_request(self.interceptor, headers, parts.extensions)
  IN  IF r.ret.tag = "None"
      THEN call_None(self, r, body)
      ELSE call_Some(self, r, body)

\* ---- InterceptorFut::poll ----------------------------------------------
\* a result carries the value returned, the future as the poll leaves it,
\* and the events in program order

\* mutant: the synthesized response lacks the content-type header
synth_NoContentType(status) ==
  LET resp0 == ResponseNew(DefaultBody)
  IN  [resp0 EXCEPT !.headers = add_header(status, @).headers]

\* the response built in the Err(status) arm
synth_response(status) ==
  LET resp0 == ResponseNew(DefaultBody)
      resp1 == [resp0 EXCEPT !.headers = Insert(@, "content-type", "application/grpc")]
  IN  [resp1 EXCEPT !.headers = add_header(status, @).headers]

\* mutant: the poll takes the status out of the future
poll_Err_Consumes(this) ==
  LET resp == synth_response(this.inner.val)
  IN  [out |-> Ready(Ok(resp)),
       this |-> [this EXCEPT !.inner = Err(Status("Ok", "", "", from_headers(EmptyMap)))],
       trace |-> <<Ev("synth", this.inner.val), Ev("return", Ready(Ok(resp)))>>]

\* Err(status) arm: return the synthesized response at once
poll_Err(this) ==
  LET resp == synth_response(this.inner.val)
  IN  [out |-> Ready(Ok(resp)), this |-> this,
       trace |-> <<Ev("synth", this.inner.val), Ev("return", Ready(Ok(resp)))>>]

\* mutant: the metadata moved into the MetadataMap is not put back
poll_ReadyOk_DropsHeaders(this2, p) ==
  LET resp == p.out.val.val
      md   == from_headers(resp.headers)
      out  == [resp EXCEPT !.headers = EmptyMap]
  IN  [out |-> Ready(Ok(out)), this |-> this2,
       trace |-> <<Ev("inner_poll", [ctx |-> p.ctx, out |-> p.out]),
                   Ev("on_response", [headers |-> md, extensions |-> resp.extensions]),
                   Ev("return", Ready(Ok(out)))>>]

\* mutant: the response is rebuilt around a default body
poll_ReadyOk_DefaultBody(this2, p) ==
  LET resp == p.out.val.val
      md   == from_headers(resp.headers)
      out  == [resp EXCEPT !.headers = into_headers(on_response(this2.interceptor, md, resp.extensions)),
                           !.body = DefaultBody]
  IN  [out |-> Ready(Ok(out)), this |-> this2,
       trace |-> <<Ev("inner_poll", [ctx |-> p.ctx, out |-> p.out]),
                   Ev("on_response", [headers |-> md, extensions |-> resp.extensions]),
                   Ev("return", Ready(Ok(out)))>>]

\* the poll of the inner future: the context passed and the value returned
InnerPollEv(p) == Ev("inner_poll", [ctx |-> p.ctx, out |-> p.out])

\* the inner future returned Ready(Ok(resp)): run on_response, reassemble
poll_ReadyOk(this2, p) ==
  LET resp    == p.out.val.val
      parts   == [status |-> resp.status, version |-> resp.version,
                  headers |-> resp.headers, extensions |-> resp.extensions]
      body    == resp.body
      headers == from_headers(parts.headers)
      hdrs2   == on_response(this2.interceptor, headers, parts.extensions)
      out     == [parts EXCEPT !.headers = into_headers(hdrs2)] @@ [body |-> body]
  IN  [out |-> Ready(Ok(out)), this |-> this2,
       trace |-> <<InnerPollEv(p),
                   Ev("on_response", [headers |-> headers, extensions |-> parts.extensions]),
                   Ev("return", Ready(Ok(out)))>>]

\* the inner future returned Ready(Err(error))
poll_ReadyErr(this2, p) ==
  [out |-> Ready(Err(p.out.val.val)), this |-> this2,
   trace |-> <<InnerPollEv(p), Ev("return", Ready(Err(p.out.val.val)))>>]

\* the inner future returned Pending
poll_Pending(this2, p) ==
  [out |-> Pending, this |-> this2,
   trace |-> <<InnerPollEv(p), Ev("return", Pending)>>]

\* the Ok(fut) arm: poll the inner future and match on what it returns
poll_Ok(this, ctx) ==
  LET p     == Future_poll(this.inner.val, ctx)
      this2 == [this EXCEPT !.inner = Ok(p.fut)]
  IN  IF p.out.tag = "Ready" /\ p.out.val.tag = "Ok" THEN poll_ReadyOk(this2, p)
      ELSE IF p.out.tag = "Ready" THEN poll_ReadyErr(this2, p)
      ELSE poll_Pending(this2, p)

\* mutant: the inner future is polled with a context of the interceptor's own
poll_OwnContext(this, ctx) ==
  IF this.inner.tag = "Err" THEN poll_Err(this)
  ELSE poll_Ok(this, [waker |-> [task |-> 0]])

\* mutant: a short-circuited future yields once before it answers
poll_YieldsFirst(this, ctx) ==
  IF this.inner.tag = "Err" /\ this.inner.val.details = ""
  THEN [out |-> Pending,
        this |-> [this EXCEPT !.inner.val.details = "polled"],
        trace |-> <<Ev("wake", ctx), Ev("return", Pending)>>]
  ELSE IF this.inner.tag = "Err" THEN poll_Err(this)
  ELSE poll_Ok(this, ctx)

\* mutant: a result of the inner future is taken but Pending is reported
poll_LosesReady(this, ctx) ==
  LET r == poll_Ok(this, ctx)
  IN  IF this.inner.tag = "Err" THEN poll_Err(this)
      ELSE IF r.out.tag = "Ready"
      THEN [r EXCEPT !.out = Pending, !.trace = <<r.trace[1], Ev("return", Pending)>>]
      ELSE r

\* mutant: a successful response is returned without running on_response
poll_SkipsOnResponse(this, ctx) ==
  LET r == poll_Ok(this, ctx)
  IN  IF this.inner.tag = "Err" THEN poll_Err(this)
      ELSE IF r.out.tag = "Ready" /\ r.out.val.tag = "Ok"
      THEN LET resp == r.trace[1].arg.out.val.val
           IN  [out |-> Ready(Ok(resp)), this |-> r.this,
                trace |-> <<r.trace[1], Ev("return", Ready(Ok(resp)))>>]
      ELSE r

\* mutant: on_response also runs when the handler failed
poll_HookOnError(this, ctx) ==
  LET r == poll_Ok(this, ctx)
  IN  IF this.inner.tag = "Err" THEN poll_Err(this)
      ELSE IF r.out.tag = "Ready" /\ r.out.val.tag = "Err"
      THEN [r EXCEPT !.trace = <<r.trace[1],
                                 Ev("on_response", [headers |-> from_headers(EmptyMap), extensions |-> EmptyMap]),
                                 r.trace[2]>>]
      ELSE r

\* mutant: on_response also runs on the synthesized response
poll_HookOnShortCircuit(this, ctx) ==
  LET r    == poll_Err(this)
      resp == r.out.val.val
      h    == from_headers(resp.headers)
      out  == [resp EXCEPT !.headers = into_headers(on_response(this.interceptor, h, resp.extensions))]
  IN  IF this.inner.tag = "Err"
      THEN [out |-> Ready(Ok(out)), this |-> this,
            trace |-> <<r.trace[1],
                        Ev("on_response", [headers |-> h, extensions |-> resp.extensions]),
                        Ev("return", Ready(Ok(out)))>>]
      ELSE poll_Ok(this, ctx)

\* mutant: a handler error is stored in the future as a terminal status
poll_Rebranch(this, ctx) ==
  LET r == poll_Ok(this, ctx)
  IN  IF this.inner.tag = "Err" THEN poll_Err(this)
      ELSE IF r.out.tag = "Ready" /\ r.out.val.tag = "Err"
      THEN [r EXCEPT !.this = InterceptorFut_status(this.interceptor, Status("Unknown", r.out.val.val, "", from_headers(EmptyMap)))]
      ELSE r

\* mutant: a handler error is answered with a synthesized status response
poll_ErrToStatus(this, ctx) ==
  LET r    == poll_Ok(this, ctx)
      resp == synth_response(Status("Unknown", "BAD", "", from_headers(EmptyMap)))
  IN  IF this.inner.tag = "Err" THEN poll_Err(this)
      ELSE IF r.out.tag = "Ready" /\ r.out.val.tag = "Err"
      THEN [r EXCEPT !.out = Ready(Ok(resp)), !.trace = <<r.trace[1], Ev("return", Ready(Ok(resp)))>>]
      ELSE r

InterceptorFut_poll(this, ctx) ==
  IF this.inner.tag = "Err" THEN poll_Err(this) ELSE poll_Ok(this, ctx)

\* ---- InterceptorService::poll_ready -------------------------------------
\* innerOut is what self.inner.poll_ready(cx) returns; a result carries the
\* value returned, the polls made of the inner probe and the hook events

\* mutant: the interceptor reports itself ready while the inner handler waits
poll_ready_AlwaysReady(self, innerOut) ==
  [out |-> IF innerOut.tag = "Pending" THEN Ready(Ok("unit")) ELSE innerOut,
   innerPolls |-> <<innerOut>>, trace |-> << >>]

InterceptorService_poll_ready(self, innerOut) ==
  [out |-> innerOut, innerPolls |-> <<innerOut>>, trace |-> << >>]

\* what the inner handler's readiness probe may return
ReadinessOutcomes == {Pending, Ready(Ok("unit"))} \cup {Ready(Err(e)) : e \in HandlerErrors}

\* ---- state --------------------------------------------------------------
VARIABLES
  interceptor,  \* InterceptorService.interceptor, the policy (read-only)
  inner,        \* InterceptorService.inner: per call, the requests its call() received
  pc,           \* per call: "idle", "created", "resolved", "dropped"
  reqIn,        \* per call: the request the caller passed to call()
  fut,          \* per call: the InterceptorFut, None before call / after drop
  result,       \* per call: the last value poll returned to the caller
  npolls,       \* per call: polls that returned Pending
  events,       \* per call: hook, handler and poll events in program order
  ready         \* the last poll_ready: what the inner probe gave and what was returned

vars == <<interceptor, inner, pc, reqIn, fut, result, npolls, events, ready>>

Init ==
  /\ interceptor \in Policies
  /\ inner = [c \in Calls |-> << >>]
  /\ pc = [c \in Calls |-> "idle"]
  /\ reqIn = [c \in Calls |-> None]
  /\ fut = [c \in Calls |-> None]
  /\ result = [c \in Calls |-> None]
  /\ npolls = [c \in Calls |-> 0]
  /\ events = [c \in Calls |-> << >>]
  /\ ready = None

\* the caller invokes service.call(req); call() takes &mut self, so the
\* calls are serialized and numbered in the order they are made
Call(c) ==
  /\ pc[c] = "idle"
  /\ \A d \in Calls : d < c => pc[d] # "idle"
  /\ \E req \in Requests :
       LET r == InterceptorService_call([interceptor |-> interceptor, inner |-> inner], req)
       IN  /\ reqIn' = [reqIn EXCEPT ![c] = req]
           /\ fut' = [fut EXCEPT ![c] = r.fut]
           /\ inner' = [inner EXCEPT ![c] = @ \o r.inner]
           /\ events' = [events EXCEPT ![c] = @ \o r.trace]
  /\ pc' = [pc EXCEPT ![c] = "created"]
  /\ UNCHANGED <<interceptor, result, npolls, ready>>

\* the inner handler's computation resolves (environment step)
InnerResolve(c) ==
  /\ fut[c] # None
  /\ fut[c].inner.tag = "Ok"
  /\ fut[c].inner.val.state = "pending"
  /\ \E o \in HandlerOutcomesFor(inner[c][1]) :
       /\ fut' = [fut EXCEPT ![c].inner.val.state = "ready", ![c].inner.val.out = o]
       /\ events' = [events EXCEPT ![c] = Append(@, Ev("inner_resolved", o))]
  /\ UNCHANGED <<interceptor, inner, pc, reqIn, result, npolls, ready>>

\* the scheduler polls an InterceptorFut it owns and has not seen resolve
Poll(c) ==
  /\ fut[c] # None
  /\ pc[c] # "resolved"
  /\ LET r == InterceptorFut_poll(fut[c], Context(c))
     IN  /\ r.out.tag = "Pending" => npolls[c] < MaxPolls
         /\ fut' = [fut EXCEPT ![c] = r.this]
         /\ result' = [result EXCEPT ![c] = r.out]
         /\ events' = [events EXCEPT ![c] = @ \o r.trace]
         /\ pc' = [pc EXCEPT ![c] = IF r.out.tag = "Ready" THEN "resolved" ELSE "created"]
         /\ npolls' = [npolls EXCEPT ![c] = IF r.out.tag = "Pending" THEN @ + 1 ELSE @]
  /\ UNCHANGED <<interceptor, inner, reqIn, ready>>

\* mutant: the future is given up without dropping it or its inner future
Drop_Leak(c) ==
  /\ pc[c] = "created"
  /\ pc' = [pc EXCEPT ![c] = "dropped"]
  /\ events' = [events EXCEPT ![c] = Append(@, Ev("drop", None))]
  /\ UNCHANGED <<interceptor, inner, reqIn, fut, result, npolls, ready>>

\* the owner drops an unresolved InterceptorFut; its fields are dropped with it
Drop(c) ==
  /\ pc[c] = "created"
  /\ pc' = [pc EXCEPT ![c] = "dropped"]
  /\ fut' = [fut EXCEPT ![c] = None]
  /\ events' = [events EXCEPT ![c] = Append(@, Ev("drop", None))]
  /\ UNCHANGED <<interceptor, inner, reqIn, result, npolls, ready>>

Next == \E c \in Calls : Call(c) \/ InnerResolve(c) \/ Poll(c) \/ Drop(c)

Spec == Init /\ [][Next]_vars

\* the scheduler keeps polling a future it holds that can make progress;
\* run with the policy that takes both branches
InitFair == Init /\ interceptor = "auth"
SpecFair == InitFair /\ [][Next]_vars /\ \A c \in Calls : WF_vars(Poll(c))

\* the owner polls a short-circuited future again after it returned Ready
RePoll(c) ==
  /\ fut[c] # None
  /\ pc[c] = "resolved"
  /\ fut[c].inner.tag = "Err"
  /\ Len(events[c]) < 3 + 2 * MaxPolls
  /\ LET r == InterceptorFut_poll(fut[c], Context(c))
     IN  /\ fut' = [fut EXCEPT ![c] = r.this]
         /\ result' = [result EXCEPT ![c] = r.out]
         /\ events' = [events EXCEPT ![c] = @ \o r.trace]
  /\ UNCHANGED <<interceptor, inner, pc, reqIn, npolls, ready>>

NextRepoll == Next \/ \E c \in Calls : RePoll(c)

\* the calls, with further polls of resolved short-circuited futures
SpecRepoll == Init /\ [][NextRepoll]_vars

\* the caller probes the service's readiness; the inner probe answers
PollReady ==
  /\ \E o \in ReadinessOutcomes :
       LET r == InterceptorService_poll_ready([interceptor |-> interceptor, inner |-> inner], o)
       IN  ready' = [innerOut |-> o, out |-> r.out, innerPolls |-> r.innerPolls, trace |-> r.trace]
  /\ UNCHANGED <<interceptor, inner, pc, reqIn, fut, result, npolls, events>>

NextReady == PollReady \/ Next

\* the calls together with readiness probes at any time
SpecReady == Init /\ [][NextReady]_vars

\* ---- observations used by the properties --------------------------------
Started(c) == pc[c] # "idle"
Resolved(c) == pc[c] = "resolved"
\* what on_request does with the request of call c
HookOf(c) == on_request(interceptor, from_headers(reqIn[c].headers), reqIn[c].extensions)
Rejected(c) == Started(c) /\ HookOf(c).ret.tag = "Some"
Continued(c) == Started(c) /\ HookOf(c).ret.tag = "None"
At(c, name) == {i \in DOMAIN events[c] : events[c][i].ev = name}
Count(c, name) == Cardinality(At(c, name))
\* the outcomes the inner computation of call c resolved with
InnerOutcomes(c) == {events[c][i].arg : i \in At(c, "inner_resolved")}
InnerOk(c) == \E o \in InnerOutcomes(c) : o.tag = "Ok"
InnerErr(c) == \E o \in InnerOutcomes(c) : o.tag = "Err"
\* the polls of call c that returned Ready
ReadyAt(c) == {i \in At(c, "return") : events[c][i].arg.tag = "Ready"}

\* ---- C1 -----------------------------------------------------------------
\* C1: when on_request returns a status, the inner handler's call is never
\* invoked, in call() or in any poll, and the response the caller observes
\* carries that status's code and the default (empty) body.
C1_ShortCircuitSkipsHandler ==
  \A c \in Calls : Rejected(c) =>
    /\ inner[c] = << >>
    /\ Count(c, "inner_call") = 0
    /\ Count(c, "inner_poll") = 0
    /\ Resolved(c) =>
         /\ result[c].tag = "Ready" /\ result[c].val.tag = "Ok"
         /\ "grpc-status" \in DOMAIN result[c].val.val.headers
         /\ result[c].val.val.headers["grpc-status"] = to_header_value(HookOf(c).ret.val.code)
         /\ result[c].val.val.body = DefaultBody

C1_Witness ==
  \E c \in Calls : Rejected(c) /\ Resolved(c) /\ interceptor = "auth"
                   /\ result[c].val.val.headers["grpc-status"] = "16"

\* ---- C2 -----------------------------------------------------------------
\* C2: when on_request returns nothing, the inner handler is invoked exactly
\* once for that call, with exactly the metadata and extensions on_request
\* left (what it inserted or changed is there, nothing else differs).
C2_HandlerSeesHookedRequest ==
  \A c \in Calls : Continued(c) =>
    /\ Len(inner[c]) = 1
    /\ Count(c, "inner_call") = 1
    /\ inner[c][1].headers = into_headers(HookOf(c).headers)
    /\ inner[c][1].extensions = HookOf(c).extensions

C2_Witness ==
  \E c \in Calls : /\ Continued(c) /\ Resolved(c) /\ interceptor = "modify"
                   /\ "x-msg" \in DOMAIN reqIn[c].headers
                   /\ reqIn[c].headers["x-msg"] = "old"
                   /\ inner[c][1].headers["x-msg"] = "BAD"
                   /\ inner[c][1].headers["x-msg-bin"] = "QklO"
                   /\ inner[c][1].headers["authorization"] = "tok"
                   /\ inner[c][1].extensions = [k \in {"Conn", "Dummy"} |-> IF k = "Conn" THEN "c0" ELSE "EXT"]

\* ---- C3 -----------------------------------------------------------------
\* C3: when the inner computation of a delegated future resolves
\* successfully and the future has resolved, on_response was invoked exactly
\* once, with the metadata and extensions of the handler's response, and the
\* caller's response carries the metadata as on_response left it.
C3_OnResponseOnceOnSuccess ==
  \A c \in Calls : (Resolved(c) /\ InnerOk(c)) =>
    \A o \in InnerOutcomes(c) :
      /\ Count(c, "on_response") = 1
      /\ \A i \in At(c, "on_response") :
           events[c][i].arg = [headers |-> from_headers(o.val.headers), extensions |-> o.val.extensions]
      /\ result[c].tag = "Ready" /\ result[c].val.tag = "Ok"
      /\ result[c].val.val.headers =
           into_headers(on_response(interceptor, from_headers(o.val.headers), o.val.extensions))

C3_Witness ==
  \E c \in Calls : /\ Resolved(c) /\ InnerOk(c) /\ interceptor = "auth"
                   /\ \E o \in InnerOutcomes(c) : o.val.headers = [k \in {"x-h", "x-intercepted"} |-> "v"]
                   /\ result[c].val.val.headers["x-intercepted"] = "t1"
                   /\ result[c].val.val.headers["x-h"] = "v"

\* ---- C4 -----------------------------------------------------------------
\* C4: when the inner computation of a delegated future resolves with an
\* error, on_response is never invoked and the future resolves to that same
\* error value.
C4_ErrorPassesThrough ==
  \A c \in Calls : InnerErr(c) =>
    /\ Count(c, "on_response") = 0
    /\ Resolved(c) => \A o \in InnerOutcomes(c) : result[c] = Ready(Err(o.val))

C4_Witness ==
  /\ \E c \in Calls : Resolved(c) /\ InnerErr(c) /\ result[c] = Ready(Err("e2"))
  /\ \E c \in Calls : Resolved(c) /\ InnerErr(c) /\ result[c] = Ready(Err("e1"))

\* ---- C5 -----------------------------------------------------------------
\* C5: within one call, on_request comes strictly before the inner handler
\* is invoked; on_response comes strictly after the inner computation has
\* resolved and strictly before the future returns Ready to the caller.
C5_EventOrder ==
  \A c \in Calls :
    /\ \A j \in At(c, "inner_call") : \E i \in At(c, "on_request") : i < j
    /\ \A i \in At(c, "on_request") : \A j \in At(c, "inner_call") : i < j
    /\ \A k \in At(c, "on_response") :
         /\ \E i \in At(c, "inner_resolved") : i < k
         /\ \A j \in ReadyAt(c) : k < j
    /\ (InnerOk(c) /\ ReadyAt(c) # {}) => At(c, "on_response") # {}

C5_Witness ==
  \E c \in Calls : /\ Resolved(c) /\ Len(events[c]) = 8
                   /\ events[c][1].ev = "on_request" /\ events[c][2].ev = "inner_call"
                   /\ events[c][5].ev = "inner_resolved" /\ events[c][7].ev = "on_response"
                   /\ events[c][8].ev = "return"

\* ---- C6 -----------------------------------------------------------------
\* C6: over any sequence of polls of one future, on_response is invoked at
\* most once, and not at all when the future is short-circuited or the inner
\* computation has not resolved successfully.
C6_OnResponseAtMostOnce ==
  \A c \in Calls :
    /\ Count(c, "on_response") <= 1
    /\ (Rejected(c) \/ ~InnerOk(c)) => Count(c, "on_response") = 0

C6_Witness ==
  /\ \E c \in Calls : Resolved(c) /\ Rejected(c) /\ Count(c, "on_response") = 0
  /\ \E c \in Calls : Resolved(c) /\ npolls[c] = MaxPolls /\ Count(c, "on_response") = 1

\* ---- C7 -----------------------------------------------------------------
\* C7: after any sequence of polls the future holds exactly one of a
\* terminal status and the inner pending computation, and it is the one
\* call() chose: the status on_request returned, or the inner future.
C7_BranchFixed ==
  \A c \in Calls : fut[c] # None =>
    /\ fut[c].inner.tag \in {"Ok", "Err"}
    /\ fut[c].inner.tag = "Err" <=> Rejected(c)
    /\ Rejected(c) => fut[c].inner.val = HookOf(c).ret.val
    /\ Continued(c) => fut[c].inner.val.state \in {"pending", "ready", "done"}

C7_Witness ==
  /\ \E c \in Calls : Resolved(c) /\ fut[c].inner.tag = "Err"
  /\ \E c \in Calls : Resolved(c) /\ fut[c].inner.tag = "Ok" /\ InnerErr(c) /\ npolls[c] > 0

\* ---- C8 -----------------------------------------------------------------
\* C8: a short-circuited future resolves to Ok carrying the status response,
\* never to Err; a future resolves to Err exactly when it is delegated and
\* its inner computation resolved to Err; a handler error is never answered
\* with a synthesized status response.
C8_FailureChannelsDistinct ==
  \A c \in Calls : Resolved(c) =>
    /\ result[c].tag = "Ready"
    /\ Rejected(c) => result[c].val = Ok(synth_response(HookOf(c).ret.val))
    /\ result[c].val.tag = "Err" <=> (Continued(c) /\ InnerErr(c))
    /\ Continued(c) => Count(c, "synth") = 0

C8_Witness ==
  /\ \E c \in Calls : Resolved(c) /\ Rejected(c) /\ result[c].val.tag = "Ok"
  /\ \E c \in Calls : Resolved(c) /\ Continued(c) /\ InnerErr(c) /\ result[c].val.tag = "Err"

\* ---- C9 -----------------------------------------------------------------
\* Status::to_http, the response built directly from a status
to_http(status) ==
  LET parts == ResponseNew(DefaultBody)
      h     == Insert(parts.headers, "content-type", "application/grpc")
  IN  [parts EXCEPT !.headers = add_header(status, h).headers]

\* C9: the response of a short-circuited call has the status, version and
\* headers of a response built directly from the same status: content-type
\* application/grpc plus the headers the status serializes into, no others.
C9_ShortCircuitWireShape ==
  \A c \in Calls : (Resolved(c) /\ Rejected(c)) =>
    LET st   == HookOf(c).ret.val
        resp == result[c].val.val
    IN  /\ resp.status = to_http(st).status
        /\ resp.version = to_http(st).version
        /\ resp.headers = to_http(st).headers
        /\ resp.headers["content-type"] = "application/grpc"
        /\ DOMAIN resp.headers =
             {"content-type"} \cup DOMAIN add_header(st, EmptyMap).headers
        /\ \A k \in DOMAIN add_header(st, EmptyMap).headers :
             resp.headers[k] = add_header(st, EmptyMap).headers[k]

C9_Witness ==
  \E c \in Calls : /\ Resolved(c) /\ Rejected(c) /\ interceptor = "auth"
                   /\ result[c].val.val.headers =
                        [k \in {"content-type", "grpc-status", "grpc-message", "x-realm"} |->
                           CASE k = "content-type" -> "application/grpc"
                             [] k = "grpc-status" -> "16"
                             [] k = "grpc-message" -> "no%20auth"
                             [] OTHER -> "api"]

\* ---- C10 ----------------------------------------------------------------
\* C10: once a future is dropped before it resolved, nothing more happens
\* for that call: no on_response, no synthesized response, and the inner
\* pending computation is gone with it and is never polled again.
C10_DropIsSilent ==
  \A c \in Calls : pc[c] = "dropped" =>
    /\ fut[c] = None
    /\ events[c][Len(events[c])].ev = "drop"
    /\ Count(c, "drop") = 1
    /\ Count(c, "on_response") = 0
    /\ Count(c, "synth") = 0
    /\ ReadyAt(c) = {}

C10_Witness ==
  /\ \E c \in Calls : pc[c] = "dropped" /\ Continued(c) /\ InnerOk(c) /\ npolls[c] > 0
  /\ \E c \in Calls : pc[c] = "dropped" /\ Rejected(c)

\* ---- C11 ----------------------------------------------------------------
\* C11: every poll_ready of the service polls the inner handler's readiness
\* probe exactly once and returns its result unchanged (Ready(Ok),
\* Ready(Err) or Pending), and invokes neither policy hook.
C11_ReadinessPassThrough ==
  ready # None =>
    /\ ready.innerPolls = <<ready.innerOut>>
    /\ ready.out = ready.innerOut
    /\ ready.trace = << >>

C11_Witness ==
  /\ ready # None /\ ready.out = Pending
  /\ \E c \in Calls : Resolved(c)
  /\ \E c \in Calls : pc[c] = "idle"

\* ---- C12 ----------------------------------------------------------------
\* the steps taken for call c alone: the call, the polls of its future, the
\* resolution of its own inner computation, the drop
Schedule(c) ==
  LET own == SelectSeq(events[c], LAMBDA e : e.ev \in {"on_request", "inner_resolved", "return", "drop"})
  IN  [i \in DOMAIN own |->
         CASE own[i].ev = "on_request" -> [step |-> "call", arg |-> None]
           [] own[i].ev = "inner_resolved" -> [step |-> "resolve", arg |-> own[i].arg]
           [] own[i].ev = "return" -> [step |-> "poll", arg |-> None]
           [] OTHER -> [step |-> "drop", arg |-> None]]

\* a service that has served no other call
FreshService(I) == [interceptor |-> I, inner |-> [c \in Calls |-> << >>]]

\* one step of a call that runs with no other call around
AloneStep(I, req, c, s, st) ==
  CASE st.step = "call" ->
         LET r == InterceptorService_call(FreshService(I), req)
         IN  [fut |-> r.fut, result |-> None, inner |-> r.inner, events |-> r.trace]
    [] st.step = "resolve" ->
         [s EXCEPT !.fut.inner.val.state = "ready", !.fut.inner.val.out = st.arg,
                   !.events = Append(@, Ev("inner_resolved", st.arg))]
    [] st.step = "poll" ->
         LET r == InterceptorFut_poll(s.fut, Context(c))
         IN  [s EXCEPT !.fut = r.this, !.result = r.out, !.events = @ \o r.trace]
    [] OTHER ->
         [s EXCEPT !.fut = None, !.events = Append(@, Ev("drop", None))]

RECURSIVE Alone(_, _, _, _)
Alone(I, req, c, sched) ==
  IF sched = << >>
  THEN [fut |-> None, result |-> None, inner |-> << >>, events |-> << >>]
  ELSE AloneStep(I, req, c, Alone(I, req, c, SubSeq(sched, 1, Len(sched) - 1)), sched[Len(sched)])

\* C12: under any interleaving of the call() and poll() steps of several calls
\* on one service, what happens to a call (branch, hook invocations, request
\* forwarded, final response or error) is what happens when the same request
\* and the same inner outcome are run with no other call around.
C12_CallsIndependent ==
  \A c \in Calls : Started(c) =>
    LET a == Alone(interceptor, reqIn[c], c, Schedule(c))
    IN  /\ events[c] = a.events
        /\ result[c] = a.result
        /\ fut[c] = a.fut
        /\ inner[c] = a.inner

C12_Witness ==
  \E c, d \in Calls :
    /\ c < d /\ Resolved(c) /\ pc[d] = "created" /\ npolls[d] > 0
    /\ Continued(c) /\ Continued(d) /\ reqIn[c] # reqIn[d]
    /\ InnerErr(c)

\* ---- C13 ----------------------------------------------------------------
\* C13: with a policy that keeps the default (no-op) on_response, such as
\* OnRequest, the response the caller observes for a successful delegated
\* call has the status, version and headers of the handler's response.
C13_DefaultHookKeepsResponse ==
  \A c \in Calls : (interceptor \in OnRequestPolicies /\ Resolved(c) /\ InnerOk(c)) =>
    \A o \in InnerOutcomes(c) :
      /\ result[c].val.val.status = o.val.status
      /\ result[c].val.val.version = o.val.version
      /\ result[c].val.val.headers = o.val.headers

C13_Witness ==
  /\ interceptor = "modify"
  /\ \E c \in Calls : Resolved(c) /\ result[c] = Ready(Ok(ResponseNew(DefaultBody)))
  /\ \E c \in Calls : /\ Resolved(c) /\ InnerOk(c)
                      /\ result[c].val.val.headers = [k \in {"x-h", "x-intercepted"} |-> "v"]

\* ---- C14 ----------------------------------------------------------------
\* a live future that is short-circuited or whose inner computation resolved
CanResolve(c) ==
  /\ fut[c] # None
  /\ fut[c].inner.tag = "Err" \/ fut[c].inner.val.state = "ready"

\* C14: a future returns Ready at most once and only Pending before that;
\* under a scheduler that keeps polling it, a short-circuited future that is
\* not dropped eventually returns Ready, and so does a delegated future once
\* its inner computation has resolved.
C14_ResolvesOnce ==
  /\ [](\A c \in Calls :
          /\ Cardinality(ReadyAt(c)) <= 1
          /\ \A i \in At(c, "return") : i < Len(events[c]) => events[c][i].arg = Pending
          /\ Resolved(c) <=> ReadyAt(c) # {})
  /\ \A c \in Calls : CanResolve(c) ~> (Resolved(c) \/ pc[c] = "dropped")

C14_Witness ==
  /\ \E c \in Calls : Resolved(c) /\ Rejected(c)
  /\ \E c \in Calls : Resolved(c) /\ Continued(c) /\ npolls[c] = MaxPolls /\ Count(c, "return") = MaxPolls + 1

\* ---- C15 ----------------------------------------------------------------
\* C15: a poll of a delegated future whose inner computation is not resolved
\* returns Pending, polls the inner future exactly once, with the caller's
\* own context, invokes no hook, and leaves the future delegated, the inner
\* future holding the caller's waker.
C15_PendingPoll ==
  \A c \in Calls :
    /\ \A i \in At(c, "return") : events[c][i].arg = Pending =>
         /\ i > 2
         /\ events[c][i - 1].ev = "inner_poll"
         /\ events[c][i - 1].arg = [ctx |-> Context(c), out |-> Pending]
         /\ events[c][i - 2].ev \in {"inner_call", "return"}
    /\ (fut[c] # None /\ fut[c].inner.tag = "Ok" /\ fut[c].inner.val.state = "pending") =>
         /\ Count(c, "inner_poll") = npolls[c]
         /\ Count(c, "return") = npolls[c]
         /\ Count(c, "on_request") = 1 /\ Count(c, "on_response") = 0
         /\ fut[c].inner.val.waker = IF npolls[c] = 0 THEN None ELSE Context(c).waker
         /\ result[c] = IF npolls[c] = 0 THEN None ELSE Pending

C15_Witness ==
  \E c \in Calls : /\ pc[c] = "created" /\ npolls[c] = MaxPolls
                   /\ fut[c].inner.tag = "Ok" /\ fut[c].inner.val.state = "pending"
                   /\ fut[c].inner.val.waker = [task |-> c]
                   /\ result[c] = Pending

\* ---- C16 ----------------------------------------------------------------
\* C16: the first poll of a short-circuited future returns Ready, never
\* Pending, without polling any inner future and without registering a
\* wake-up.
C16_ShortCircuitOneStep ==
  \A c \in Calls : Rejected(c) =>
    /\ \A i \in At(c, "return") : events[c][i].arg.tag = "Ready"
    /\ Count(c, "inner_poll") = 0
    /\ Count(c, "wake") = 0
    /\ npolls[c] = 0
    /\ Count(c, "return") = 1 => (Resolved(c) /\ Len(events[c]) = 3)

C16_Witness ==
  \E c \in Calls : /\ Rejected(c) /\ Resolved(c) /\ Count(c, "return") = 1
                   /\ events[c][3].arg.tag = "Ready"

\* ---- C18 ----------------------------------------------------------------
\* C18: on the continue path the inner handler receives the caller's request
\* body unchanged, and on success the body and extensions the caller
\* observes are those of the handler's response.
C18_BodyUntouched ==
  \A c \in Calls :
    /\ Continued(c) => (Len(inner[c]) > 0 /\ inner[c][1].body = reqIn[c].body)
    /\ (Resolved(c) /\ InnerOk(c)) =>
         \A o \in InnerOutcomes(c) :
           /\ result[c].val.val.body = o.val.body
           /\ result[c].val.val.extensions = o.val.extensions

C18_Witness ==
  \E c \in Calls : /\ Resolved(c) /\ InnerOk(c) /\ interceptor = "auth"
                   /\ inner[c][1].body = "b2"
                   /\ result[c].val.val.body = "r1"
                   /\ result[c].val.val.extensions = [k \in {"Trace"} |-> "t1"]

\* ---- C19 ----------------------------------------------------------------
\* C19: on_request and the inner handler's call both happen inside call():
\* on_request runs exactly once per call in both branches, the inner handler
\* is invoked even when the returned future is never polled, and no poll
\* invokes on_request or the inner handler's call.
C19_HooksInsideCall ==
  \A c \in Calls : Started(c) =>
    /\ At(c, "on_request") = {1}
    /\ Continued(c) => (At(c, "inner_call") = {2} /\ Len(inner[c]) = 1)
    /\ Rejected(c) => (At(c, "inner_call") = {} /\ Len(inner[c]) = 0)

C19_Witness ==
  /\ \E c \in Calls : /\ pc[c] = "dropped" /\ Continued(c) /\ Count(c, "return") = 0
                      /\ Len(inner[c]) = 1 /\ Count(c, "inner_call") = 1
  /\ \E c \in Calls : Resolved(c) /\ Continued(c) /\ npolls[c] > 0 /\ Count(c, "on_request") = 1

\* ---- C20 ----------------------------------------------------------------
\* C20: a poll of a short-circuited future leaves the held status as it
\* was, so every poll of it, also after it has resolved, returns Ready(Ok)
\* with an equal synthesized response.
C20_ShortCircuitRepoll ==
  \A c \in Calls : (Rejected(c) /\ fut[c] # None) =>
    /\ fut[c] = InterceptorFut_status(interceptor, HookOf(c).ret.val)
    /\ \A i \in At(c, "return") :
         events[c][i].arg = Ready(Ok(synth_response(HookOf(c).ret.val)))
    /\ Resolved(c) => result[c] = Ready(Ok(synth_response(HookOf(c).ret.val)))

C20_Witness ==
  \E c \in Calls : Rejected(c) /\ Resolved(c) /\ Count(c, "return") = MaxPolls + 1

====
